---- MODULE Spec2Model ----
(***************************************************************************)
(* Bank statement parser API (src/main.py): the /parse-statement and       *)
(* /validate handlers, the two regex validators, the response clean-up and *)
(* the upload folder shared by concurrently served requests.               *)
(*                                                                         *)
(* Text is modelled as sequences of characters, a character being a        *)
(* one-character string; "U+0060" stands for the single character GRAVE    *)
(* ACCENT (the backtick of a markdown fence) and "U+0663" for the single   *)
(* character ARABIC-INDIC DIGIT THREE, a decimal digit outside ASCII.      *)
(***************************************************************************)
EXTENDS Integers, Sequences, FiniteSets, TLC

(***************************************************************************)
(* Bounds of the model.                                                    *)
(***************************************************************************)
\* number of single-character edits applied to a well-formed field value
MaxEdits == 1
\* number of pages of an uploaded PDF
MaxPages == 2

(***************************************************************************)
(* Characters and literals.                                                *)
(***************************************************************************)
Q == "\""
NL == "\n"
SP == " "
BT == "U+0060"
UDigit == "U+0663"

AsciiDigits == {"0", "1", "2", "3", "4", "5", "6", "7", "8", "9"}
UnicodeDigits == {UDigit}
\* str.strip() and the JSON scanner both skip these
Whitespace == {SP, NL}

KeyAccount == <<"a", "c", "c", "o", "u", "n", "t", "_", "n", "u", "m", "b", "e", "r">>
KeySortCode == <<"s", "o", "r", "t", "_", "c", "o", "d", "e">>
GoodAccount == <<"1", "2", "3", "4", "5", "6", "7", "8">>
GoodSortCode == <<"1", "2", "-", "3", "4", "-", "5", "6">>

Min(a, b) == IF a < b THEN a ELSE b

(***************************************************************************)
(* JSON values: [t, v] with t the kind and v the content.                  *)
(***************************************************************************)
JNull == [t |-> "null", v |-> <<>>]
JStr(s) == [t |-> "str", v |-> s]
JNum(ds) == [t |-> "num", v |-> ds]
JBool(b) == [t |-> "bool", v |-> IF b THEN <<"1">> ELSE <<>>]
JArr(xs) == [t |-> "arr", v |-> xs]
JObj(m) == [t |-> "obj", v |-> m]
\* the value of request.get_json() / a Python None that is not JSON null:
\* both are None in Python, so they are the same value here
PyNone == JNull

EmptyMap == [k \in {} |-> JNull]
MapPut(m, k, x) == [y \in (DOMAIN m) \cup {k} |-> IF y = k THEN x ELSE m[y]]

\* dict.get(key, default)
DictGet(d, key, default) == IF key \in DOMAIN d.v THEN d.v[key] ELSE default

\* Python truth value of a decoded JSON value (not data)
Truthy(x) ==
    CASE x.t = "null" -> FALSE
      [] x.t = "bool" -> x.v # <<>>
      [] x.t = "num" -> \E i \in 1..Len(x.v) : x.v[i] # "0"
      [] x.t = "str" -> x.v # <<>>
      [] x.t = "arr" -> x.v # <<>>
      [] x.t = "obj" -> DOMAIN x.v # {}

(***************************************************************************)
(* Validators: re.fullmatch over a str pattern.  In a str pattern \d is    *)
(* every Unicode decimal digit (no re.ASCII flag).  A pattern is a         *)
(* sequence of items [cls, n]: n repetitions of a character class.         *)
(***************************************************************************)
ClassHas(cls, c) ==
    IF cls = "\\d" THEN c \in AsciiDigits \cup UnicodeDigits ELSE c = cls

AccountPattern == << [cls |-> "\\d", n |-> 8] >>
SortCodePattern == << [cls |-> "\\d", n |-> 2], [cls |-> "-", n |-> 1],
                      [cls |-> "\\d", n |-> 2], [cls |-> "-", n |-> 1],
                      [cls |-> "\\d", n |-> 2] >>

\* position after matching pat at the start of s from position i, 0 if none
RECURSIVE MatchFrom(_, _, _)
MatchFrom(pat, s, i) ==
    IF pat = <<>> THEN i
    ELSE LET it == Head(pat)
             j == i + it.n
         IN IF j - 1 <= Len(s) /\ \A k \in i..(j - 1) : ClassHas(it.cls, s[k])
            THEN MatchFrom(Tail(pat), s, j)
            ELSE 0

\* re.match: the pattern at the start of s, whatever follows
PrefixMatch(pat, s) == MatchFrom(pat, s, 1) # 0

\* re.fullmatch
FullMatch(pat, s) == MatchFrom(pat, s, 1) = Len(s) + 1

\* a call that either returns a value or raises: [raised, val, exc]
Returned(x) == [raised |-> FALSE, val |-> x, exc |-> "none"]
Raised(e) == [raised |-> TRUE, val |-> FALSE, exc |-> e]

validate_account(acc) ==
    IF acc.t = "str" THEN Returned(FullMatch(AccountPattern, acc.v))
    ELSE Raised("TypeError")

validate_sort_code(code) ==
    IF code.t = "str" THEN Returned(FullMatch(SortCodePattern, code.v))
    ELSE Raised("TypeError")

(***************************************************************************)
(* Clean-up of the interpreter's response (main.py line 132).              *)
(***************************************************************************)
RECURSIVE LStrip(_)
LStrip(s) == IF s # <<>> /\ Head(s) \in Whitespace THEN LStrip(Tail(s)) ELSE s

RECURSIVE RStrip(_)
RStrip(s) ==
    IF s # <<>> /\ s[Len(s)] \in Whitespace THEN RStrip(SubSeq(s, 1, Len(s) - 1))
    ELSE s

Strip(s) == RStrip(LStrip(s))

\* str.replace(pat, ""): leftmost non-overlapping occurrences removed
RECURSIVE Remove(_, _)
Remove(s, pat) ==
    IF Len(s) < Len(pat) THEN s
    ELSE IF SubSeq(s, 1, Len(pat)) = pat
         THEN Remove(SubSeq(s, Len(pat) + 1, Len(s)), pat)
         ELSE <<Head(s)>> \o Remove(Tail(s), pat)

FenceJson == <<BT, BT, BT, "j", "s", "o", "n">>
Fence == <<BT, BT, BT>>

\* the clean-up without its first replace: the json tag of a fence stays
CleanFenceOnly(ai_output) == Remove(Strip(ai_output), Fence)

Clean(ai_output) == Remove(Remove(Strip(ai_output), FenceJson), Fence)

(***************************************************************************)
(* json.loads on the subset of JSON without escapes and fractions:         *)
(* objects, arrays, strings, integers, true, false, null.  A result is     *)
(* [ok, val, pos], pos being the position after the value.                 *)
(***************************************************************************)
ParseFail == [ok |-> FALSE, val |-> JNull, pos |-> 0]
Parsed(x, p) == [ok |-> TRUE, val |-> x, pos |-> p]

RECURSIVE SkipWs(_, _)
SkipWs(s, i) == IF i <= Len(s) /\ s[i] \in Whitespace THEN SkipWs(s, i + 1) ELSE i

At(s, i, c) == i <= Len(s) /\ s[i] = c

\* s[i] is the opening quote
ParseString(s, i) ==
    LET closers == {j \in (i + 1)..Len(s) : s[j] = Q}
    IN IF closers = {} THEN ParseFail
       ELSE LET j == CHOOSE x \in closers : \A y \in closers : x <= y
                body == SubSeq(s, i + 1, j - 1)
            IN IF \E k \in 1..Len(body) : body[k] = NL THEN ParseFail
               ELSE Parsed(JStr(body), j + 1)

RECURSIVE DigitRun(_, _)
DigitRun(s, i) == IF i <= Len(s) /\ s[i] \in AsciiDigits THEN DigitRun(s, i + 1) ELSE i

ParseNumber(s, i) ==
    IF s[i] = "0" THEN Parsed(JNum(<<"0">>), i + 1)
    ELSE LET j == DigitRun(s, i) IN Parsed(JNum(SubSeq(s, i, j - 1)), j)

ParseWord(s, i, word, x) ==
    IF i + Len(word) - 1 <= Len(s) /\ SubSeq(s, i, i + Len(word) - 1) = word
    THEN Parsed(x, i + Len(word))
    ELSE ParseFail

RECURSIVE ParseValue(_, _)
RECURSIVE ParseMembers(_, _, _)
RECURSIVE ParseElements(_, _, _)

ParseValue(s, i) ==
    IF i > Len(s) THEN ParseFail
    ELSE IF s[i] = Q THEN ParseString(s, i)
    ELSE IF s[i] \in AsciiDigits THEN ParseNumber(s, i)
    ELSE IF s[i] = "n" THEN ParseWord(s, i, <<"n", "u", "l", "l">>, JNull)
    ELSE IF s[i] = "t" THEN ParseWord(s, i, <<"t", "r", "u", "e">>, JBool(TRUE))
    ELSE IF s[i] = "f" THEN ParseWord(s, i, <<"f", "a", "l", "s", "e">>, JBool(FALSE))
    ELSE IF s[i] = "{"
         THEN LET j == SkipWs(s, i + 1)
              IN IF At(s, j, "}") THEN Parsed(JObj(EmptyMap), j + 1)
                 ELSE ParseMembers(s, j, EmptyMap)
    ELSE IF s[i] = "["
         THEN LET j == SkipWs(s, i + 1)
              IN IF At(s, j, "]") THEN Parsed(JArr(<<>>), j + 1)
                 ELSE ParseElements(s, j, <<>>)
    ELSE ParseFail

\* i is at the key of the next member; m holds the members read so far
ParseMembers(s, i, m) ==
    IF ~At(s, i, Q) THEN ParseFail
    ELSE LET k == ParseString(s, i)
         IN IF ~k.ok THEN ParseFail
            ELSE LET c == SkipWs(s, k.pos)
                 IN IF ~At(s, c, ":") THEN ParseFail
                    ELSE LET x == ParseValue(s, SkipWs(s, c + 1))
                         IN IF ~x.ok THEN ParseFail
                            ELSE LET e == SkipWs(s, x.pos)
                                     m2 == MapPut(m, k.val.v, x.val)
                                 IN IF At(s, e, "}") THEN Parsed(JObj(m2), e + 1)
                                    ELSE IF At(s, e, ",")
                                         THEN ParseMembers(s, SkipWs(s, e + 1), m2)
                                         ELSE ParseFail

\* i is at the next element; xs holds the elements read so far
ParseElements(s, i, xs) ==
    LET x == ParseValue(s, i)
    IN IF ~x.ok THEN ParseFail
       ELSE LET e == SkipWs(s, x.pos)
                xs2 == Append(xs, x.val)
            IN IF At(s, e, "]") THEN Parsed(JArr(xs2), e + 1)
               ELSE IF At(s, e, ",") THEN ParseElements(s, SkipWs(s, e + 1), xs2)
                    ELSE ParseFail

\* json.loads: one value, white space around it, nothing else
Loads(s) ==
    LET x == ParseValue(s, SkipWs(s, 1))
    IN IF x.ok /\ SkipWs(s, x.pos) = Len(s) + 1
       THEN Returned(x.val)
       ELSE [raised |-> TRUE, val |-> JNull, exc |-> "JSONDecodeError"]

(***************************************************************************)
(* Upload handling: allowed_file, secure_filename, extract_text_from_pdf.  *)
(***************************************************************************)
ALLOWED_EXTENSIONS == { <<"p", "d", "f">> }
\* statement_text[:500]
PreviewLen == 500

Lower(c) ==
    CASE c = "A" -> "a" [] c = "P" -> "p" [] c = "D" -> "d" [] c = "F" -> "f"
      [] c = "T" -> "t" [] c = "X" -> "x" [] OTHER -> c

LowerAll(s) == [i \in 1..Len(s) |-> Lower(s[i])]

Dots(s) == {i \in 1..Len(s) : s[i] = "."}
LastDot(s) == CHOOSE i \in Dots(s) : \A j \in Dots(s) : j <= i
FirstDot(s) == CHOOSE i \in Dots(s) : \A j \in Dots(s) : i <= j

\* filename.split('.')[1]: the piece between the first dot and the next one
SecondPiece(s) ==
    LET rest == SubSeq(s, FirstDot(s) + 1, Len(s))
    IN IF Dots(rest) = {} THEN rest ELSE SubSeq(rest, 1, FirstDot(rest) - 1)

\* the extension taken with split instead of rsplit
allowed_file_split(filename) ==
    /\ Dots(filename) # {}
    /\ LowerAll(SecondPiece(filename)) \in ALLOWED_EXTENSIONS

\* '.' in filename and filename.rsplit('.', 1)[1].lower() in ALLOWED_EXTENSIONS
allowed_file(filename) ==
    /\ Dots(filename) # {}
    /\ LowerAll(SubSeq(filename, LastDot(filename) + 1, Len(filename)))
           \in ALLOWED_EXTENSIONS

RECURSIVE StripChars(_, _)
StripChars(s, cs) ==
    IF s # <<>> /\ Head(s) \in cs THEN StripChars(Tail(s), cs)
    ELSE IF s # <<>> /\ s[Len(s)] \in cs THEN StripChars(SubSeq(s, 1, Len(s) - 1), cs)
    ELSE s

\* werkzeug's secure_filename on names made of letters, dots and slashes:
\* a path separator becomes "_", then leading and trailing "." and "_" go
secure_filename(filename) ==
    StripChars([i \in 1..Len(filename) |->
                   IF filename[i] = "/" THEN "_" ELSE filename[i]],
               {".", "_"})

\* an uploaded document is the sequence of the texts of its pages, or
\* Corrupt: bytes that pdfplumber.open rejects
Corrupt == << <<"not a PDF">> >>
PageTexts == { <<>>, <<SP>>, <<"x">>, <<"y">> }

RECURSIVE extract_text_from_pdf(_)
extract_text_from_pdf(pages) ==
    IF pages = <<>> THEN <<>>
    ELSE LET text == Head(pages)
             rest == extract_text_from_pdf(Tail(pages))
         IN IF text # <<>> THEN text \o <<NL>> \o rest ELSE rest

(***************************************************************************)
(* Responses: (jsonify(...), status).                                      *)
(***************************************************************************)
NoPayload ==
    [kind |-> "none", data |-> JNull, account_number |-> JNull,
     sort_code |-> JNull, account_valid |-> FALSE, sort_code_valid |-> FALSE,
     preview |-> <<>>]

NoResponse == [status |-> 0, error |-> "", details |-> "", payload |-> NoPayload]

ErrorResponse(status, error, details) ==
    [status |-> status, error |-> error, details |-> details, payload |-> NoPayload]

OkResponse(payload) ==
    [status |-> 200, error |-> "", details |-> "", payload |-> payload]

\* lines 132-148: what the handler computes once the interpreter returned;
\* kind "respond" is a response sent without more ado, "raise" an
\* exception for the generic handler, "ok" the assembled response_data
DecodeStatement(statement_text, ai_output) ==
    LET clean_output == Clean(ai_output)
        loaded == Loads(clean_output)
        data == loaded.val
    IN IF loaded.raised
       THEN [kind |-> "respond", exc |-> "",
             resp |-> ErrorResponse(500, "Failed to parse AI response as JSON",
                                    "JSONDecodeError")]
       ELSE IF data.t # "obj"
       THEN [kind |-> "raise", exc |-> "AttributeError", resp |-> NoResponse]
       ELSE LET account == validate_account(DictGet(data, KeyAccount, JStr(<<>>)))
                sort == validate_sort_code(DictGet(data, KeySortCode, JStr(<<>>)))
            IN IF account.raised
               THEN [kind |-> "raise", exc |-> account.exc, resp |-> NoResponse]
               ELSE IF sort.raised
               THEN [kind |-> "raise", exc |-> sort.exc, resp |-> NoResponse]
               ELSE [kind |-> "ok", exc |-> "",
                     resp |-> OkResponse(
                         [kind |-> "statement", data |-> data,
                          account_number |-> JNull, sort_code |-> JNull,
                          account_valid |-> account.val,
                          sort_code_valid |-> sort.val,
                          preview |-> SubSeq(statement_text, 1,
                                             Min(PreviewLen, Len(statement_text)))])]

\* lines 160-168 once the temporary file is out of the way
UnhandledResponse(exc) ==
    ErrorResponse(500, "An error occurred while processing the file", exc)

\* lines 179-199: the response of /validate to a request body; body is
\* what request.get_json() hands over
ValidateResponse(body) ==
    IF body.raised THEN ErrorResponse(500, "Validation failed", body.exc)
    ELSE LET data == body.val
         IN IF ~Truthy(data) THEN ErrorResponse(400, "No JSON data provided", "")
            ELSE IF data.t # "obj"
            THEN ErrorResponse(500, "Validation failed", "AttributeError")
            ELSE LET account == DictGet(data, KeyAccount, JStr(<<>>))
                     sort_code == DictGet(data, KeySortCode, JStr(<<>>))
                     account_valid == validate_account(account)
                     sort_code_valid == validate_sort_code(sort_code)
                 IN IF account_valid.raised
                    THEN ErrorResponse(500, "Validation failed", account_valid.exc)
                    ELSE IF sort_code_valid.raised
                    THEN ErrorResponse(500, "Validation failed", sort_code_valid.exc)
                    ELSE OkResponse(
                        [kind |-> "validation", data |-> JNull,
                         account_number |-> account, sort_code |-> sort_code,
                         account_valid |-> account_valid.val,
                         sort_code_valid |-> sort_code_valid.val,
                         preview |-> <<>>])

(***************************************************************************)
(* Inputs.                                                                 *)
(***************************************************************************)
Reqs == {"r1", "r2"}

NameA == <<"a", ".", "p", "d", "f">>
NameB == <<"b", ".", "p", "d", "f">>
NameUpper == <<"a", ".", "P", "D", "F">>
NameTraversal == <<".", ".", "/", "a", ".", "p", "d", "f">>
NameTxt == <<"a", ".", "t", "x", "t">>
NamePdfTxt == <<"a", ".", "p", "d", "f", ".", "t", "x", "t">>
NameNoDot == <<"p", "d", "f">>

Filenames == {<<>>, NameA, NameB, NameUpper, NameTraversal, NameTxt, NamePdfTxt,
              NameNoDot}
SharedFilenames == {NameA, NameTraversal, NameB}

RECURSIVE PagesUpTo(_)
PagesUpTo(n) ==
    IF n = 0 THEN { <<>> }
    ELSE LET shorter == PagesUpTo(n - 1)
         IN shorter \cup {Append(d, t) : d \in {x \in shorter : Len(x) = n - 1},
                                          t \in PageTexts}

Docs == {Corrupt} \cup PagesUpTo(MaxPages)
SharedDocs == { <<<<"x">>>>, <<<<"y">>>>, <<<<SP>>>> }

\* values of a field: a well-formed value and everything MaxEdits
\* single-character edits away from it
EditChars == {"0", UDigit, "-", "/", SP, NL, "x"}

Edits1(s) ==
    {s}
    \cup {[s EXCEPT ![i] = c] : i \in 1..Len(s), c \in EditChars}
    \cup {SubSeq(s, 1, i - 1) \o SubSeq(s, i + 1, Len(s)) : i \in 1..Len(s)}
    \cup {SubSeq(s, 1, i) \o <<c>> \o SubSeq(s, i + 1, Len(s)) :
              i \in 0..Len(s), c \in EditChars}

RECURSIVE EditsN(_, _)
EditsN(S, n) == IF n = 0 THEN S ELSE EditsN(UNION {Edits1(s) : s \in S}, n - 1)

AccountInputs == EditsN({GoodAccount}, MaxEdits) \cup {<<>>}
SortCodeInputs == EditsN({GoodSortCode}, MaxEdits) \cup {<<>>}

Body2(a, s) == JObj(MapPut(MapPut(EmptyMap, KeyAccount, a), KeySortCode, s))
BodyAccount(a) == JObj(MapPut(EmptyMap, KeyAccount, a))
BodySortCode(s) == JObj(MapPut(EmptyMap, KeySortCode, s))

\* what request.get_json() makes of the body of a /validate request
ValidateBodies ==
    {Returned(Body2(JStr(a), JStr(GoodSortCode))) : a \in AccountInputs}
    \cup {Returned(Body2(JStr(GoodAccount), JStr(s))) : s \in SortCodeInputs}
    \cup {Returned(x) : x \in {JObj(EmptyMap), PyNone, JArr(<<>>),
                               JArr(<<JNum(<<"1">>)>>), JStr(<<"x">>),
                               BodyAccount(JStr(GoodAccount)),
                               BodySortCode(JStr(GoodSortCode)),
                               Body2(JNull, JStr(GoodSortCode)),
                               Body2(JStr(GoodAccount), JNull),
                               Body2(JNum(GoodAccount), JStr(GoodSortCode))}}
    \cup {[raised |-> TRUE, val |-> JNull, exc |-> "BadRequest"]}

\* texts the interpreter may answer with
Quoted(s) == <<Q>> \o s \o <<Q>>
Member(k, x) == Quoted(k) \o <<":">> \o x
NullText == <<"n", "u", "l", "l">>
ObjText(members) == <<"{">> \o members \o <<"}">>
StatementText(a, s) ==
    ObjText(Member(KeyAccount, a) \o <<",", SP>> \o Member(KeySortCode, s))

JsonTexts ==
    { StatementText(Quoted(GoodAccount), Quoted(GoodSortCode)),
      StatementText(NullText, Quoted(GoodSortCode)),
      StatementText(Quoted(GoodAccount), NullText),
      StatementText(GoodAccount, Quoted(GoodSortCode)),
      StatementText(Quoted(<<"1", "2", "3">>),
                    Quoted(<<"1", "2", "/", "3", "4", "/", "5", "6">>)),
      StatementText(Quoted(FenceJson \o GoodAccount),
                    Quoted(<<"1", "2", "-", BT, BT, BT, "3", "4", "-", "5", "6">>)),
      ObjText(Member(KeySortCode, Quoted(GoodSortCode))),
      ObjText(Member(KeyAccount, Quoted(GoodAccount))),
      ObjText(<<>>),
      <<"[", "1", "]">>,
      NullText,
      <<SP>> \o ObjText(<<NL>>) \o <<NL>> }

OtherTexts == { <<>>, <<"S", "o", "r", "r", "y">>, <<"{", Q, "a", Q, ":">> }

FenceStyles == {"plain", "json", "bare", "padded", "tight"}

Wrap(style, text) ==
    CASE style = "plain" -> text
      [] style = "json" -> FenceJson \o <<NL>> \o text \o <<NL>> \o Fence
      [] style = "bare" -> Fence \o <<NL>> \o text \o <<NL>> \o Fence
      [] style = "padded" ->
            <<SP, NL>> \o FenceJson \o <<NL>> \o text \o <<NL>> \o Fence \o <<NL, SP>>
      [] style = "tight" -> FenceJson \o text \o Fence

InterpreterOutcomes ==
    {[raises |-> FALSE, text |-> t, style |-> f] :
         t \in JsonTexts \cup OtherTexts, f \in FenceStyles}
    \cup {[raises |-> TRUE, text |-> <<>>, style |-> "plain"]}

SharedOutcomes ==
    {[raises |-> FALSE,
      text |-> StatementText(Quoted(GoodAccount), Quoted(GoodSortCode)),
      style |-> "plain"],
     [raises |-> TRUE, text |-> <<>>, style |-> "plain"]}

(***************************************************************************)
(* State.                                                                  *)
(***************************************************************************)
VARIABLES
    pc,      \* where each request is in its handler
    req,     \* the HTTP request
    local,   \* the handler's local variables
    resp,    \* the response sent
    fs,      \* the files of UPLOAD_FOLDER: path -> document
    hist     \* what the request has done so far (history)

vars == <<pc, req, local, resp, fs, hist>>

NoRequest ==
    [route |-> "none", has_file |-> FALSE, filename |-> <<>>, doc |-> <<>>,
     body |-> Returned(JNull)]

NoLocal ==
    [filepath |-> <<>>, statement_text |-> <<>>, ai_output |-> <<>>,
     response_data |-> NoResponse, exc |-> ""]

NoHist ==
    [stored |-> FALSE, fs_writes |-> 0, extract_calls |-> 0, interp_calls |-> 0,
     extracted |-> FALSE, decoded |-> FALSE, rm_failed_at |-> "none",
     ai_raised |-> FALSE, ai_text |-> <<>>, ai_style |-> "plain"]

EmptyFolder == [p \in {} |-> <<>>]

Init ==
    /\ pc = [r \in Reqs |-> "idle"]
    /\ req = [r \in Reqs |-> NoRequest]
    /\ local = [r \in Reqs |-> NoLocal]
    /\ resp = [r \in Reqs |-> NoResponse]
    /\ fs = EmptyFolder
    /\ hist = [r \in Reqs |-> NoHist]

exists(path) == path \in DOMAIN fs
Unlinked(path) == [p \in (DOMAIN fs) \ {path} |-> fs[p]]
Written(path, doc) == [p \in (DOMAIN fs) \cup {path} |-> IF p = path THEN doc ELSE fs[p]]

Goto(r, label) == pc' = [pc EXCEPT ![r] = label]
Respond(r, response) ==
    /\ resp' = [resp EXCEPT ![r] = response]
    /\ Goto(r, "done")

(***************************************************************************)
(* POST /parse-statement, one action per step that touches the upload      *)
(* folder or a collaborator.                                               *)
(***************************************************************************)
\* a multipart request arrives
ReceiveUpload(r, names, docs) ==
    /\ pc[r] = "idle"
    /\ \E has_file \in BOOLEAN, filename \in names, doc \in docs :
          /\ has_file \/ (filename = <<>> /\ doc = <<>>)
          /\ req' = [req EXCEPT ![r] =
                        [route |-> "parse", has_file |-> has_file,
                         filename |-> filename, doc |-> doc,
                         body |-> Returned(JNull)]]
    /\ Goto(r, "check")
    /\ UNCHANGED <<local, resp, fs, hist>>

\* lines 103-118
CheckUpload(r) ==
    /\ pc[r] = "check"
    /\ IF ~req[r].has_file
       THEN Respond(r, ErrorResponse(400, "No file provided", "")) /\ UNCHANGED local
       ELSE IF req[r].filename = <<>>
       THEN Respond(r, ErrorResponse(400, "No file selected", "")) /\ UNCHANGED local
       ELSE IF ~allowed_file(req[r].filename)
       THEN Respond(r, ErrorResponse(400, "Only PDF files are allowed", ""))
            /\ UNCHANGED local
       ELSE /\ local' = [local EXCEPT ![r].filepath = secure_filename(req[r].filename)]
            /\ Goto(r, "save")
            /\ UNCHANGED resp
    /\ UNCHANGED <<req, fs, hist>>

\* line 119: file.save(filepath)
SaveUpload(r) ==
    /\ pc[r] = "save"
    /\ fs' = Written(local[r].filepath, req[r].doc)
    /\ hist' = [hist EXCEPT ![r].stored = TRUE, ![r].fs_writes = @ + 1]
    /\ Goto(r, "extract")
    /\ UNCHANGED <<req, local, resp>>

\* lines 122-124: the extractor opens whatever is at filepath now
ExtractText(r) ==
    /\ pc[r] = "extract"
    /\ hist' = [hist EXCEPT ![r].extract_calls = @ + 1,
                            ![r].extracted = exists(local[r].filepath)
                                             /\ fs[local[r].filepath] # Corrupt]
    /\ IF ~exists(local[r].filepath)
       THEN /\ local' = [local EXCEPT ![r].exc = "FileNotFoundError"]
            /\ Goto(r, "except")
       ELSE IF fs[local[r].filepath] = Corrupt
       THEN /\ local' = [local EXCEPT ![r].exc = "PDFSyntaxError"]
            /\ Goto(r, "except")
       ELSE LET statement_text == extract_text_from_pdf(fs[local[r].filepath])
            IN /\ local' = [local EXCEPT ![r].statement_text = statement_text]
               /\ IF Strip(statement_text) = <<>>
                  THEN Goto(r, "remove_empty")
                  ELSE Goto(r, "interpret")
    /\ UNCHANGED <<req, resp, fs>>

\* lines 125-126
RemoveEmpty(r) ==
    /\ pc[r] = "remove_empty"
    /\ IF exists(local[r].filepath)
       THEN /\ fs' = Unlinked(local[r].filepath)
            /\ hist' = [hist EXCEPT ![r].fs_writes = @ + 1]
            /\ Respond(r, ErrorResponse(400, "Could not extract text from PDF", ""))
            /\ UNCHANGED local
       ELSE /\ local' = [local EXCEPT ![r].exc = "FileNotFoundError"]
            /\ hist' = [hist EXCEPT ![r].rm_failed_at = "remove_empty"]
            /\ Goto(r, "except")
            /\ UNCHANGED <<fs, resp>>
    /\ UNCHANGED req

\* line 129: extract_bank_data_with_gemini(statement_text)
Interpret(r, outcomes) ==
    /\ pc[r] = "interpret"
    /\ \E out \in outcomes :
          /\ hist' = [hist EXCEPT ![r].interp_calls = @ + 1,
                                  ![r].ai_raised = out.raises,
                                  ![r].ai_text = out.text,
                                  ![r].ai_style = out.style]
          /\ IF out.raises
             THEN /\ local' = [local EXCEPT ![r].exc = "InterpreterError"]
                  /\ Goto(r, "except")
             ELSE /\ local' = [local EXCEPT ![r].ai_output = Wrap(out.style, out.text)]
                  /\ Goto(r, "decode")
    /\ UNCHANGED <<req, resp, fs>>

\* lines 132-148 and, for a JSONDecodeError, lines 155-159
Decode(r) ==
    /\ pc[r] = "decode"
    /\ hist' = [hist EXCEPT ![r].decoded = TRUE]
    /\ LET d == DecodeStatement(local[r].statement_text, local[r].ai_output)
       IN CASE d.kind = "respond" -> Respond(r, d.resp) /\ UNCHANGED local
            [] d.kind = "raise" ->
                  /\ local' = [local EXCEPT ![r].exc = d.exc]
                  /\ Goto(r, "except")
                  /\ UNCHANGED resp
            [] d.kind = "ok" ->
                  /\ local' = [local EXCEPT ![r].response_data = d.resp]
                  /\ Goto(r, "remove_ok")
                  /\ UNCHANGED resp
    /\ UNCHANGED <<req, fs>>

\* lines 151-153
RemoveOk(r) ==
    /\ pc[r] = "remove_ok"
    /\ IF exists(local[r].filepath)
       THEN /\ fs' = Unlinked(local[r].filepath)
            /\ hist' = [hist EXCEPT ![r].fs_writes = @ + 1]
            /\ Respond(r, local[r].response_data)
            /\ UNCHANGED local
       ELSE /\ local' = [local EXCEPT ![r].exc = "FileNotFoundError"]
            /\ hist' = [hist EXCEPT ![r].rm_failed_at = "remove_ok"]
            /\ Goto(r, "except")
            /\ UNCHANGED <<fs, resp>>
    /\ UNCHANGED req

\* lines 160-162: 'filepath' in locals() and os.path.exists(filepath); every
\* exception of the model is raised after filepath was assigned
ExceptCheck(r) ==
    /\ pc[r] = "except"
    /\ IF exists(local[r].filepath)
       THEN Goto(r, "except_remove") /\ UNCHANGED resp
       ELSE Respond(r, UnhandledResponse(local[r].exc))
    /\ UNCHANGED <<req, local, fs, hist>>

\* lines 163-168; an os.remove that fails here leaves the handler and the
\* framework answers 500 by itself
ExceptRemove(r) ==
    /\ pc[r] = "except_remove"
    /\ IF exists(local[r].filepath)
       THEN /\ fs' = Unlinked(local[r].filepath)
            /\ hist' = [hist EXCEPT ![r].fs_writes = @ + 1]
            /\ Respond(r, UnhandledResponse(local[r].exc))
       ELSE /\ hist' = [hist EXCEPT ![r].rm_failed_at =
                                    IF @ = "none" THEN "except_remove" ELSE @]
            /\ Respond(r, ErrorResponse(500, "Internal Server Error", ""))
            /\ UNCHANGED fs
    /\ UNCHANGED <<req, local>>

(***************************************************************************)
(* POST /validate.                                                         *)
(***************************************************************************)
ReceiveValidate(r, bodies) ==
    /\ pc[r] = "idle"
    /\ \E body \in bodies :
          req' = [req EXCEPT ![r] =
                     [route |-> "validate", has_file |-> FALSE, filename |-> <<>>,
                      doc |-> <<>>, body |-> body]]
    /\ Goto(r, "validate")
    /\ UNCHANGED <<local, resp, fs, hist>>

\* lines 179-199
validate_data(r) ==
    /\ pc[r] = "validate"
    /\ Respond(r, ValidateResponse(req[r].body))
    /\ UNCHANGED <<req, local, fs, hist>>

(***************************************************************************)
(* Specifications.  Spec serves one request; SpecConc serves two uploads   *)
(* at once, as the threaded server of app.run does.                        *)
(***************************************************************************)
Handle(r, names, docs, outcomes) ==
    \/ ReceiveUpload(r, names, docs)
    \/ CheckUpload(r)
    \/ SaveUpload(r)
    \/ ExtractText(r)
    \/ RemoveEmpty(r)
    \/ Interpret(r, outcomes)
    \/ Decode(r)
    \/ RemoveOk(r)
    \/ ExceptCheck(r)
    \/ ExceptRemove(r)

Next ==
    \/ Handle("r1", Filenames, Docs, InterpreterOutcomes)
    \/ ReceiveValidate("r1", ValidateBodies)
    \/ validate_data("r1")

Spec == Init /\ [][Next]_vars

NextConc == \E r \in Reqs : Handle(r, SharedFilenames, SharedDocs, SharedOutcomes)

SpecConc == Init /\ [][NextConc]_vars

(***************************************************************************)
(* Properties.                                                             *)
(***************************************************************************)
Done(r) == pc[r] = "done"
Blank(text) == Strip(text) = <<>>

\* the response the handler ends with for an outcome of lines 132-148 when
\* its temporary file is removed without incident
ResponseTo(d) == IF d.kind = "raise" THEN UnhandledResponse(d.exc) ELSE d.resp

Absent(data, key) == key \notin DOMAIN data.v \/ data.v[key] = JNull

\* C1: when the response of a parse-statement request that stored its
\* upload is sent, the temporary file no longer exists, whatever the exit
\* path (200, 400 for empty text, 500 for undecodable JSON, 500 otherwise).
C1_TempFileGoneAtResponse ==
    \A r \in Reqs :
        (Done(r) /\ hist[r].stored) => ~exists(local[r].filepath)

\* C2: when the interpreter's response decodes to a JSON object whose
\* account_number and/or sort_code is null or missing, the request ends
\* with the 200 success payload and the matching validation flag false.
C2_NullFieldsStillSucceed ==
    \A r \in Reqs :
        LET loaded == Loads(Clean(local[r].ai_output))
            data == loaded.val
        IN (/\ Done(r) /\ hist[r].decoded
            /\ ~loaded.raised /\ data.t = "obj"
            /\ (Absent(data, KeyAccount) \/ Absent(data, KeySortCode)))
           => /\ resp[r].status = 200
              /\ resp[r].payload.kind = "statement"
              /\ Absent(data, KeyAccount) => ~resp[r].payload.account_valid
              /\ Absent(data, KeySortCode) => ~resp[r].payload.sort_code_valid

\* C3: /validate answers 200 to every JSON-object body, echoing each field
\* with a missing one read as the empty string; {} gives both flags false
\* and both echoes empty; 400 is answered only when there is no JSON body.
C3_ValidateAnswersEveryObject ==
    \A r \in Reqs :
        (Done(r) /\ req[r].route = "validate") =>
            LET body == req[r].body
            IN /\ (~body.raised /\ body.val.t = "obj") =>
                      /\ resp[r].status = 200
                      /\ resp[r].payload.account_number
                             = DictGet(body.val, KeyAccount, JStr(<<>>))
                      /\ resp[r].payload.sort_code
                             = DictGet(body.val, KeySortCode, JStr(<<>>))
               /\ (~body.raised /\ body.val = JObj(EmptyMap)) =>
                      /\ ~resp[r].payload.account_valid
                      /\ ~resp[r].payload.sort_code_valid
               /\ resp[r].status = 400 => (body.raised \/ body.val = PyNone)

\* the field values a response reports on
CheckedAccount(r) ==
    IF resp[r].payload.kind = "validation" THEN resp[r].payload.account_number
    ELSE DictGet(resp[r].payload.data, KeyAccount, JStr(<<>>))

CheckedSortCode(r) ==
    IF resp[r].payload.kind = "validation" THEN resp[r].payload.sort_code
    ELSE DictGet(resp[r].payload.data, KeySortCode, JStr(<<>>))

Reports(r) == Done(r) /\ resp[r].status = 200

EightAsciiDigits(s) == Len(s) = 8 /\ \A i \in 1..Len(s) : s[i] \in AsciiDigits

\* C4: validate_account(s) is true exactly when s is 8 characters long and
\* each of them is an ASCII digit '0'..'9'.
C4_AccountIffEightAsciiDigits ==
    \A r \in Reqs :
        Reports(r) =>
            resp[r].payload.account_valid = EightAsciiDigits(CheckedAccount(r).v)

DecimalDigit(c) == c \in AsciiDigits \cup UnicodeDigits

SortCodeShape(s) ==
    /\ Len(s) = 8
    /\ \A i \in {1, 2, 4, 5, 7, 8} : DecimalDigit(s[i])
    /\ s[3] = "-" /\ s[6] = "-"

C6_FenceTransparent ==
    \A r \in Reqs :
        (hist[r].decoded /\ ~Loads(hist[r].ai_text).raised) =>
            /\ Loads(Clean(local[r].ai_output)) = Loads(Clean(hist[r].ai_text))
            /\ Done(r) =>
                  resp[r] = ResponseTo(DecodeStatement(local[r].statement_text,
                                                       hist[r].ai_text))

\* a fenced, padded statement was decoded and answered with 200
C6_Witness ==
    \E r \in Reqs :
        /\ Done(r) /\ hist[r].decoded
        /\ hist[r].ai_style = "padded"
        /\ hist[r].ai_text = StatementText(Quoted(GoodAccount), Quoted(GoodSortCode))
        /\ local[r].ai_output # hist[r].ai_text
        /\ resp[r].status = 200

PdfExtension(filename) ==
    \E i \in 1..Len(filename) :
        /\ filename[i] = "."
        /\ \A j \in (i + 1)..Len(filename) : filename[j] # "."
        /\ LowerAll(SubSeq(filename, i + 1, Len(filename))) = <<"p", "d", "f">>

Rejected(r) ==
    /\ req[r].route = "parse"
    /\ \/ ~req[r].has_file
       \/ req[r].filename = <<>>
       \/ ~PdfExtension(req[r].filename)

\* C7: a parse-statement request without a file field, with an empty
\* filename or with an extension other than pdf (case-insensitive) is
\* answered 400 with an error message; nothing is written to the upload
\* folder and neither the extractor nor the interpreter is called.
C7_RejectedUploadLeavesNoTrace ==
    \A r \in Reqs :
        (Done(r) /\ Rejected(r)) =>
            /\ resp[r].status = 400 /\ resp[r].error # ""
            /\ ~hist[r].stored /\ hist[r].fs_writes = 0
            /\ hist[r].extract_calls = 0 /\ hist[r].interp_calls = 0
            /\ fs = EmptyFolder

\* an upload named a.pdf.txt was refused
C7_Witness ==
    \E r \in Reqs :
        /\ Done(r) /\ Rejected(r) /\ req[r].has_file
        /\ req[r].filename = NamePdfTxt
        /\ resp[r].status = 400

\* the response of a request whose removal of the temporary file failed,
\* had that removal succeeded
IntendedResponse(r) ==
    CASE hist[r].rm_failed_at = "remove_empty" ->
            ErrorResponse(400, "Could not extract text from PDF", "")
      [] hist[r].rm_failed_at = "remove_ok" -> local[r].response_data
      [] OTHER -> UnhandledResponse(local[r].exc)

\* C8: when removing the temporary file fails, the request still returns
\* the response it would have returned had the removal succeeded.
C8_RemovalFailureKeepsResponse ==
    \A r \in Reqs :
        (Done(r) /\ hist[r].rm_failed_at # "none") => resp[r] = IntendedResponse(r)

\* C9: the interpreter is invoked at most once per request, and only after
\* the upload was stored and the extracted text is not blank; a request
\* whose extracted text is blank never invokes it and is answered 400.
C9_InterpreterOnceAfterText ==
    \A r \in Reqs :
        /\ hist[r].interp_calls <= 1
        /\ hist[r].interp_calls = 1 =>
              /\ hist[r].stored /\ hist[r].extracted
              /\ ~Blank(local[r].statement_text)
        /\ (Done(r) /\ hist[r].extracted /\ Blank(local[r].statement_text)) =>
              /\ hist[r].interp_calls = 0
              /\ resp[r].status = 400

\* the response of a request served alone, given what the interpreter
\* answered to it (NoResponse when it never got to ask although alone it
\* would have)
AloneResponse(r) ==
    IF req[r].doc = Corrupt THEN UnhandledResponse("PDFSyntaxError")
    ELSE LET text == extract_text_from_pdf(req[r].doc)
         IN IF Blank(text)
            THEN ErrorResponse(400, "Could not extract text from PDF", "")
            ELSE IF hist[r].interp_calls = 0 THEN NoResponse
            ELSE IF hist[r].ai_raised THEN UnhandledResponse("InterpreterError")
            ELSE ResponseTo(DecodeStatement(text, Wrap(hist[r].ai_style,
                                                       hist[r].ai_text)))

\* C10: under every interleaving of concurrent parse-statement requests,
\* each request extracts the text of the bytes it uploaded itself and its
\* response is the one it would get when served alone.
C10_RequestsIsolated ==
    \A r \in Reqs :
        /\ hist[r].extracted =>
              local[r].statement_text = extract_text_from_pdf(req[r].doc)
        /\ (Done(r) /\ hist[r].stored) => resp[r] = AloneResponse(r)

====
